---- MODULE Spec2Model ----
(***************************************************************************)
(* GPUMonitorStatusbar: an always-on-top Tk status bar that polls          *)
(* nvidia-smi, the CPU load and a network byte counter on a repeating      *)
(* timer.  The model follows src/src/GPUMonitorStatusbar/app.py and        *)
(* main.py: main(), GPUMonitorStatusbar.__init__, the refresh callback     *)
(* (one action per block of the callback) and the pure helpers.            *)
(*                                                                         *)
(* Numbers.  Metric values (GPU utilisation, power, temperature, CPU       *)
(* percent) are floats in the program; here a metric v is the integer 2*v  *)
(* ("halves"), so that 39.5 and 69.5 exist and "{:.0f}" formatting is a    *)
(* real rounding.  Byte counters are integers, time.time() is an integer   *)
(* number of seconds, and a transfer rate is an exact fraction             *)
(* [num, den] with den > 0.                                                *)
(***************************************************************************)
EXTENDS Integers, Sequences, FiniteSets, TLC

(* ------------------------------- bounds ------------------------------- *)

\* longest `nvidia-smi --list-gpus` output, in tokens ("g" = text, "nl" = newline)
MaxListLen == 3
\* most comma fields on the first line of a metrics query
MaxFields == 4
\* time.time() returns a value in 0..MaxTime
MaxTime == 2
\* the colorizers are applied to every metric in -MaxMetric .. MaxMetric (halves)
MaxMetric == 205
\* delta_sec arguments of get_net_download_mbps range over -1..MaxDelta
MaxDelta == 3

(* ------------------------------ helpers ------------------------------- *)

Max(a, b) == IF a >= b THEN a ELSE b

\* All sequences over S of length at most n.
RECURSIVE SeqsUpTo(_, _)
SeqsUpTo(S, n) ==
    IF n = 0 THEN {<<>>}
    ELSE LET shorter == SeqsUpTo(S, n - 1)
         IN  shorter \cup {Append(s, x) : s \in {t \in shorter : Len(t) = n - 1}, x \in S}

(* ------------------------- colours and texts -------------------------- *)

Green   == "#22c55e"
Amber   == "#f59e0b"
Red     == "#ef4444"
Neutral == "#9ca3af"
Plain   == "#e5e7eb"

\* color_for_util(x); x in halves, so the break 40 is 80 and 70 is 140.
color_for_util(x) ==
    IF x < 2 * 40 THEN Green
    ELSE IF x < 2 * 70 THEN Amber
    ELSE Red

\* color_for_temp(t); t in halves.
color_for_temp(t) ==
    IF t < 2 * 70 THEN Green
    ELSE IF t < 2 * 85 THEN Amber
    ELSE Red

\* A variant with the utilisation colorizer's break, 70.
color_for_cpu_70(c) ==
    IF c < 2 * 40 THEN Green
    ELSE IF c < 2 * 70 THEN Amber
    ELSE Red

\* color_for_cpu(c); c in halves.
color_for_cpu(c) ==
    IF c < 2 * 40 THEN Green
    ELSE IF c < 2 * 75 THEN Amber
    ELSE Red

\* f"{v:.0f}" of a metric given in halves: round to the nearest integer, a
\* tie (x.5, exact in binary floating point) going to the even neighbour.
Fmt0(h) ==
    LET lo == h \div 2
    IN  IF h % 2 = 0 THEN lo
        ELSE IF lo % 2 = 0 THEN lo ELSE lo + 1

\* A label's text: a literal, or a formatted number with its unit.
Lit(s)    == [fmt |-> s, val |-> 0]
Num(u, n) == [fmt |-> u, val |-> n]

\* A label: text and foreground colour (Label.config(text=..., fg=...)).
Lbl(t, c) == [text |-> t, fg |-> c]

(* --------------------------- nvidia-smi ------------------------------- *)

\* A subprocess.check_output result: ok = FALSE is CalledProcessError /
\* OSError, otherwise out is what the tool printed.
ProcFail    == [ok |-> FALSE, out |-> <<>>]
ProcOut(o)  == [ok |-> TRUE, out |-> o]

\* `nvidia-smi --list-gpus` prints text ("g": a run of non-newline
\* characters) and newlines ("nl").  Two adjacent "g" would be one run.
ListTexts ==
    {s \in SeqsUpTo({"g", "nl"}, MaxListLen) :
        \A k \in 1..(Len(s) - 1) : ~(s[k] = "g" /\ s[k + 1] = "g")}

ListResults == {ProcFail} \cup {ProcOut(s) : s \in ListTexts}

\* str.strip() on such a text: newlines are whitespace, "g" is not.
RECURSIVE LStrip(_)
LStrip(s) == IF s # <<>> /\ Head(s) = "nl" THEN LStrip(Tail(s)) ELSE s

RECURSIVE RStrip(_)
RStrip(s) ==
    IF s # <<>> /\ s[Len(s)] = "nl" THEN RStrip(SubSeq(s, 1, Len(s) - 1)) ELSE s

Strip(s) == RStrip(LStrip(s))

\* str.splitlines(): a newline ends a line; a last line needs no newline;
\* an empty text has no lines.
RECURSIVE SplitLinesFrom(_, _)
SplitLinesFrom(s, cur) ==
    IF s = <<>> THEN (IF cur = <<>> THEN <<>> ELSE <<cur>>)
    ELSE IF Head(s) = "nl" THEN <<cur>> \o SplitLinesFrom(Tail(s), <<>>)
    ELSE SplitLinesFrom(Tail(s), Append(cur, Head(s)))

SplitLines(s) == SplitLinesFrom(s, <<>>)

\* get_gpu_count() on the text the tool printed.
get_gpu_count(out) == Len(SplitLines(Strip(out)))

\* A comma field of the first output line of a metrics query, after
\* p.strip(): a number float() accepts (in halves), or text it rejects
\* (empty, "[N/A]", an error message).
NumField(h) == [num |-> TRUE, v |-> h]
BadField    == [num |-> FALSE, v |-> 0]

\* Metric samples the tool reports: 69.5 and 85.
GpuVals == {139, 170}

\* The first line's fields: k copies of one value, possibly with one field
\* replaced by text.  "".split(",") is [""], so there is always a field.
GpuFieldSeqs ==
    {[k \in 1..n |-> IF k = bad THEN BadField ELSE NumField(h)] :
        n \in 1..MaxFields, bad \in 0..MaxFields, h \in GpuVals}

GpuResults == {ProcFail} \cup {ProcOut(f) : f \in GpuFieldSeqs}

\* What a call returns: a value, or an exception (v is then a filler of the
\* value's shape).
Raised    == [ok |-> FALSE, v |-> 0]
Raised3   == [ok |-> FALSE, v |-> <<0, 0, 0>>]
Return(x) == [ok |-> TRUE, v |-> x]

\* query_gpu_metrics(index) given the subprocess result: raises on a
\* subprocess error, on fewer than 3 fields (RuntimeError) and on a field
\* float() rejects (ValueError); fields after the third are ignored.
query_gpu_metrics(res) ==
    IF ~res.ok THEN Raised3
    ELSE IF Len(res.out) < 3 THEN Raised3
    ELSE IF \E k \in 1..3 : ~res.out[k].num THEN Raised3
    ELSE Return(<<res.out[1].v, res.out[2].v, res.out[3].v>>)

\* The three labels of one GPU: (util, power, temp).
GpuInitial == <<Lbl(Lit("--%"), Neutral), Lbl(Lit("-- W"), Plain), Lbl(Lit("-- degC"), Neutral)>>

GpuDegraded == <<Lbl(Lit("err"), Red), Lbl(Lit("n/a"), Amber), Lbl(Lit("-- degC"), Neutral)>>

GpuValues(m) ==
    << Lbl(Num("%", Fmt0(m[1])), color_for_util(m[1])),
       Lbl(Num(" W", Fmt0(m[2])), Plain),
       Lbl(Num(" degC", Fmt0(m[3])), color_for_temp(m[3])) >>

\* The body of refresh's loop for one GPU: try query and show the values,
\* except Exception show the degraded texts.
GpuSlots(q) == IF q.ok THEN GpuValues(q.v) ELSE GpuDegraded

\* A variant of the loop body that keeps the last values on a failure.
UpdateGpuLabelsStale(labels, idx, q) ==
    IF q.ok THEN [labels EXCEPT ![idx + 1] = GpuValues(q.v)] ELSE labels

\* gpu_labels after the loop body ran for GPU index idx with query result q.
UpdateGpuLabels(labels, idx, q) ==
    [labels EXCEPT ![idx + 1] = GpuSlots(q)]

(* ------------------------------- CPU ---------------------------------- *)

\* psutil.cpu_percent(): a value (74.5 or 75, in halves) or an exception.
CpuResults == {Raised, Return(149), Return(150)}

\* get_cpu_percent(): psutil's value, or 0.0 without psutil.
get_cpu_percent(hasPsutil, res) ==
    IF hasPsutil THEN res ELSE Return(0)

CpuInitial == Lbl(Lit("--%"), Neutral)

\* refresh's CPU block.
CpuSlot(q) ==
    IF q.ok THEN Lbl(Num("%", Fmt0(q.v)), color_for_cpu(q.v))
    ELSE Lbl(Lit("--%"), Neutral)

(* ------------------------------- NET ---------------------------------- *)

\* 1024*1024, bytes per MB in get_net_download_mbps
MiB == 1048576

\* iface = None
NoIface == "<None>"

\* self.iface = None if (iface in [None, "", "auto"]) else iface
NormalizeIface(raw) == IF raw \in {NoIface, "", "auto"} THEN NoIface ELSE raw

\* One interface's cumulative counters.
Nic(n, rx, tx) == [name |-> n, bytes_recv |-> rx, bytes_sent |-> tx]

\* The counters the system reports, as psutil.net_io_counters(pernic=True)
\* or the lines of /proc/net/dev list them, in their order: each of lo,
\* eth0 and wlan0 is absent or present.  eth0 has received the most,
\* wlan0 has the most traffic in both directions.
NicChoices(n) ==
    IF n = "lo" THEN {<<>>, <<Nic(n, 4 * MiB, 4 * MiB)>>}
    ELSE IF n = "eth0" THEN {<<>>, <<Nic(n, MiB, 0)>>}
    ELSE {<<>>, <<Nic(n, 0, 4 * MiB)>>}

NetTables == {a \o b \o c : a \in NicChoices("lo"), b \in NicChoices("eth0"), c \in NicChoices("wlan0")}

\* readable = FALSE: the counter source cannot be read (net_io_counters
\* raises, /proc/net/dev cannot be opened or parsed).
NetSources ==
    {[readable |-> FALSE, table |-> <<>>]} \cup {[readable |-> TRUE, table |-> t] : t \in NetTables}

Names(t) == {t[k].name : k \in 1..Len(t)}

Entry(t, n) == t[CHOOSE k \in 1..Len(t) : t[k].name = n]

\* k.startswith("lo")
StartsWithLo(n) == n \in {"lo"}

\* {k: v for k, v in counters.items() if not k.startswith("lo")}, in order
Candidates(t) == SelectSeq(t, LAMBDA e : ~StartsWithLo(e.name))

\* The keys max() ranks the candidates by.
PsutilKey(e)   == e.bytes_recv + e.bytes_sent
FallbackKey(e) == e.bytes_recv

\* max(candidates, key=...) given each candidate's key: the first entry,
\* in iteration order, whose key no other entry exceeds.
FirstMax(c, keys) ==
    c[CHOOSE k \in 1..Len(c) :
        /\ \A j \in 1..Len(c) : keys[j] <= keys[k]
        /\ \A j \in 1..(k - 1) : keys[j] < keys[k]]

MaxByTraffic(c) == FirstMax(c, [k \in 1..Len(c) |-> PsutilKey(c[k])])
MaxByReceived(c) == FirstMax(c, [k \in 1..Len(c) |-> FallbackKey(c[k])])

\* get_net_bytes_recv(iface), psutil branch (lines 71-79).
NetBytesPsutil(iface, src) ==
    IF ~src.readable THEN Raised
    ELSE IF iface # NoIface /\ iface # "" /\ iface \in Names(src.table)
         THEN Return(Entry(src.table, iface).bytes_recv)
    ELSE IF Candidates(src.table) = <<>> THEN Return(0)
    ELSE Return(MaxByTraffic(Candidates(src.table)).bytes_recv)

\* get_net_bytes_recv(iface), /proc/net/dev branch (lines 81-100): iface is
\* not consulted, only the receive column is kept, any exception gives 0.
NetBytesFallback(iface, src) ==
    IF ~src.readable THEN Return(0)
    ELSE IF Candidates(src.table) = <<>> THEN Return(0)
    ELSE Return(MaxByReceived(Candidates(src.table)).bytes_recv)

get_net_bytes_recv(hasPsutil, iface, src) ==
    IF hasPsutil THEN NetBytesPsutil(iface, src) ELSE NetBytesFallback(iface, src)

\* Exact fractions, den > 0.
Rat(n, d) == [num |-> n, den |-> d]

\* A variant without the max(0, ...) clamp.
get_net_download_mbps_unclamped(prev_bytes, curr_bytes, delta_sec) ==
    IF delta_sec <= 0 THEN Rat(0, 1)
    ELSE Rat(curr_bytes - prev_bytes, MiB * delta_sec)

\* get_net_download_mbps(prev_bytes, curr_bytes, delta_sec):
\*   if delta_sec <= 0: return 0.0
\*   return max(0, (curr_bytes - prev_bytes) / (1024*1024)) / delta_sec
get_net_download_mbps(prev_bytes, curr_bytes, delta_sec) ==
    IF delta_sec <= 0 THEN Rat(0, 1)
    ELSE LET mib     == Rat(curr_bytes - prev_bytes, MiB)
             clamped == IF mib.num <= 0 THEN Rat(0, 1) ELSE mib
         IN  Rat(clamped.num, clamped.den * delta_sec)

\* f"{mbps:.2f}" of a fraction that is >= 0, in hundredths: the nearest
\* hundredth, a tie going to the even one.
Fmt2(r) ==
    LET q   == (100 * r.num) \div r.den
        rem == (100 * r.num) % r.den
    IN  IF 2 * rem < r.den THEN q
        ELSE IF 2 * rem > r.den THEN q + 1
        ELSE IF q % 2 = 0 THEN q ELSE q + 1

NetInitial == Lbl(Lit("-- MB/s"), Neutral)

\* refresh's NET label.
NetSlot(mbps) == Lbl(Num(" MB/s /100", Fmt2(mbps)), Neutral)

(* ------------------------------ state --------------------------------- *)

VARIABLES
    pc,           \* "main": main() after parse_args; "idle": mainloop waiting;
                  \* "gpu", "cpu", "net", "sched": inside refresh; "exited"
    nvidia_smi,   \* shutil.which("nvidia-smi") is not None
    psutil,       \* the optional import succeeded
    a_interval,   \* --interval
    a_iface,      \* --iface
    list_out,     \* what `nvidia-smi --list-gpus` gives at startup
    exit_code,    \* the process's exit status, -1 while it runs
    stderr,       \* what was written to standard error
    done,         \* what has happened so far: "tk", "list_gpus", "net_prime", "tick"
    gpu_count, interval_ms, iface, prev_rx, prev_time,
    gpu_labels, lbl_cpu, lbl_net,
    timers,       \* pending after() callbacks of refresh
    timer_delay,  \* the delay given to the latest after()
    i,            \* refresh's loop index
    queried,      \* this tick's query_gpu_metrics calls: [idx, q]
    sample,       \* refresh's locals (curr_rx, now), once taken
    prev_age,     \* ticks begun since the stored sample was taken (at most 2)
    rate_age,     \* prev_age of the sample the shown rate was computed from
    call, ret     \* a helper called on its own: arguments and result

appVars == <<pc, nvidia_smi, psutil, a_interval, a_iface, list_out, exit_code,
             stderr, done, gpu_count, interval_ms, iface, prev_rx, prev_time,
             gpu_labels, lbl_cpu, lbl_net, timers, timer_delay, i, queried,
             sample, prev_age, rate_age>>

vars == <<appVars, call, ret>>

IntervalArgs == {100, 250, 1000}
IfaceArgs    == {"auto", "eth0"}
Times        == 0..MaxTime

NoCall == [fn |-> "none"]
NoRet  == [done |-> FALSE]

\* A variant that takes the requested interval as it is.
UnclampedInterval(ms) == ms

\* self.interval_ms = max(250, int(interval_ms))
ClampInterval(ms) == Max(250, ms)

\* The process as main() starts: the environment and the arguments are
\* arbitrary, nothing has been constructed.
Init ==
    /\ pc = "main"
    /\ nvidia_smi \in BOOLEAN
    /\ psutil \in BOOLEAN
    /\ a_interval \in IntervalArgs
    /\ a_iface \in IfaceArgs
    /\ list_out \in ListResults
    /\ exit_code = -1
    /\ stderr = "" /\ done = {}
    /\ gpu_count = 0 /\ interval_ms = 0 /\ iface = NoIface
    /\ prev_rx = 0 /\ prev_time = 0
    /\ gpu_labels = <<>> /\ lbl_cpu = CpuInitial /\ lbl_net = NetInitial
    /\ timers = 0 /\ timer_delay = 0
    /\ i = 0 /\ queried = <<>>
    /\ sample = [taken |-> FALSE, rx |-> 0, now |-> 0]
    /\ prev_age = 0 /\ rate_age = 0
    /\ call = NoCall /\ ret = NoRet

ctorVars == <<gpu_count, interval_ms, iface, prev_rx, prev_time, gpu_labels,
              lbl_cpu, lbl_net, timers, timer_delay>>
tickVars == <<i, queried, sample, prev_age, rate_age>>
envVars  == <<nvidia_smi, psutil, a_interval, a_iface, list_out, call, ret>>

\* A variant that builds the labels of GPU 0 only.
BuildFirstGpuLabels(n) == <<GpuInitial>>

\* __init__, lines 156-172: one (util, power, temp) triple per GPU.
BuildGpuLabels(n) == [k \in 1..n |-> GpuInitial]

(* ------------------------------ main() -------------------------------- *)

\* main.py 13-15: nvidia-smi is not on the path.
MainMissingTool ==
    /\ pc = "main" /\ ~nvidia_smi
    /\ stderr' = "Error: nvidia-smi not found in PATH"
    /\ exit_code' = 1
    /\ pc' = "exited"
    /\ UNCHANGED <<done, ctorVars, tickVars, envVars>>

\* An exception leaves __init__ and main(): traceback, exit status 1.
Uncaught(happened) ==
    /\ stderr' = "Traceback"
    /\ exit_code' = 1
    /\ pc' = "exited"
    /\ done' = done \cup happened

\* __init__, line 112: get_gpu_count()'s check_output raises.
InitListFails ==
    /\ pc = "main" /\ nvidia_smi
    /\ ~list_out.ok
    /\ Uncaught({"tk", "list_gpus"})
    /\ UNCHANGED <<ctorVars, tickVars, envVars>>

\* __init__, line 121: the psutil.cpu_percent() warm-up raises.
InitWarmupFails ==
    /\ pc = "main" /\ nvidia_smi
    /\ list_out.ok
    /\ psutil /\ \E res \in CpuResults : ~res.ok
    /\ Uncaught({"tk", "list_gpus"})
    /\ UNCHANGED <<ctorVars, tickVars, envVars>>

\* __init__, line 123: get_net_bytes_recv raises (psutil's counters).
InitNetFails ==
    /\ pc = "main" /\ nvidia_smi
    /\ list_out.ok
    /\ \E src \in NetSources :
         ~get_net_bytes_recv(psutil, NormalizeIface(a_iface), src).ok
    /\ Uncaught({"tk", "list_gpus", "net_prime"})
    /\ UNCHANGED <<ctorVars, tickVars, envVars>>

\* main.py 17-23 and __init__ to its end: the window exists, the first
\* refresh is due after 200 ms, mainloop() waits.
InitOk ==
    /\ pc = "main" /\ nvidia_smi
    /\ list_out.ok
    /\ \E src \in NetSources, now \in Times :
         LET q == get_net_bytes_recv(psutil, NormalizeIface(a_iface), src)
         IN  /\ q.ok
             /\ prev_rx' = q.v
             /\ prev_time' = now
    /\ gpu_count' = get_gpu_count(list_out.out)
    /\ interval_ms' = ClampInterval(a_interval)
    /\ iface' = NormalizeIface(a_iface)
    /\ gpu_labels' = BuildGpuLabels(get_gpu_count(list_out.out))
    /\ lbl_cpu' = CpuInitial /\ lbl_net' = NetInitial
    /\ timers' = timers + 1 /\ timer_delay' = 200
    /\ done' = done \cup {"tk", "list_gpus", "net_prime"}
    /\ pc' = "idle"
    /\ UNCHANGED <<exit_code, stderr, tickVars, envVars>>

(* ------------------------------ refresh ------------------------------- *)

\* The Tk main loop runs a due after() callback: refresh starts.  The
\* callback is one-shot, and the main loop runs no other callback until
\* this one returns.
Dispatch ==
    /\ pc = "idle" /\ timers > 0
    /\ timers' = timers - 1
    /\ i' = 0 /\ queried' = <<>>
    /\ prev_age' = IF prev_age < 2 THEN prev_age + 1 ELSE 2
    /\ done' = done \cup {"tick"}
    /\ pc' = IF Len(gpu_labels) = 0 THEN "cpu" ELSE "gpu"
    /\ UNCHANGED <<exit_code, stderr, gpu_count, interval_ms, iface, prev_rx,
                   prev_time, gpu_labels, lbl_cpu, lbl_net, timer_delay,
                   sample, rate_age, envVars>>

\* Lines 220-229, one pass of the loop: GPU i is queried once and its
\* three labels are set.
GpuStep ==
    /\ pc = "gpu"
    /\ \E res \in GpuResults :
         LET q == query_gpu_metrics(res)
         IN  /\ gpu_labels' = UpdateGpuLabels(gpu_labels, i, q)
             /\ queried' = Append(queried, [idx |-> i, q |-> q])
    /\ i' = i + 1
    /\ pc' = IF i + 1 < Len(gpu_labels) THEN "gpu" ELSE "cpu"
    /\ UNCHANGED <<exit_code, stderr, done, gpu_count, interval_ms, iface,
                   prev_rx, prev_time, lbl_cpu, lbl_net, timers, timer_delay,
                   sample, prev_age, rate_age, envVars>>

\* Lines 232-236.
CpuStep ==
    /\ pc = "cpu"
    /\ \E res \in CpuResults : lbl_cpu' = CpuSlot(get_cpu_percent(psutil, res))
    /\ pc' = "net"
    /\ UNCHANGED <<exit_code, stderr, done, gpu_count, interval_ms, iface,
                   prev_rx, prev_time, gpu_labels, lbl_net, timers,
                   timer_delay, tickVars, envVars>>

\* Lines 239-243: the NET sample is taken, the rate is shown and the stored
\* sample advances.
NetStep ==
    /\ pc = "net"
    /\ \E now \in Times, src \in NetSources :
         LET q == get_net_bytes_recv(psutil, iface, src)
             mbps == get_net_download_mbps(prev_rx, q.v, now - prev_time)
         IN  /\ q.ok
             /\ sample' = [taken |-> TRUE, rx |-> q.v, now |-> now]
             /\ lbl_net' = NetSlot(mbps)
             /\ prev_rx' = q.v
             /\ prev_time' = now
             /\ rate_age' = prev_age
             /\ prev_age' = 0
    /\ pc' = "sched"
    /\ UNCHANGED <<exit_code, stderr, done, gpu_count, interval_ms, iface,
                   gpu_labels, lbl_cpu, timers, timer_delay, i, queried,
                   envVars>>

\* Line 240 raises (psutil's counters cannot be read): nothing in refresh
\* catches it, the rest of refresh is skipped, Tk reports the callback's
\* exception on standard error and the main loop goes on.
NetRaise ==
    /\ pc = "net"
    /\ \E src \in NetSources : ~get_net_bytes_recv(psutil, iface, src).ok
    /\ stderr' = "Traceback"
    /\ pc' = "idle"
    /\ UNCHANGED <<exit_code, done, ctorVars, tickVars, envVars>>

\* A variant of line 245 that arms the timer twice.
ScheduleTwice ==
    /\ pc = "sched"
    /\ timers' = timers + 2
    /\ timer_delay' = interval_ms
    /\ pc' = "idle"
    /\ UNCHANGED <<exit_code, stderr, done, gpu_count, interval_ms, iface,
                   prev_rx, prev_time, gpu_labels, lbl_cpu, lbl_net,
                   tickVars, envVars>>

\* Line 245: self.after(self.interval_ms, self.refresh); refresh returns.
Schedule ==
    /\ pc = "sched"
    /\ timers' = timers + 1
    /\ timer_delay' = interval_ms
    /\ pc' = "idle"
    /\ UNCHANGED <<exit_code, stderr, done, gpu_count, interval_ms, iface,
                   prev_rx, prev_time, gpu_labels, lbl_cpu, lbl_net,
                   tickVars, envVars>>

\* "q" or the menu's Quit: self.quit() ends mainloop(), main() returns.
Quit ==
    /\ pc = "idle"
    /\ exit_code' = 0
    /\ pc' = "exited"
    /\ UNCHANGED <<stderr, done, ctorVars, tickVars, envVars>>

Next ==
    \/ MainMissingTool
    \/ InitListFails
    \/ InitWarmupFails
    \/ InitNetFails
    \/ InitOk
    \/ Dispatch
    \/ GpuStep
    \/ CpuStep
    \/ NetStep
    \/ NetRaise
    \/ Schedule
    \/ Quit

Spec == Init /\ [][Next]_vars

(* ----------------------- the helpers on their own --------------------- *)

\* Arguments of the helpers when they are called directly.
ByteVals == {0, 1, MiB, 100 * MiB, 2147483647}
Deltas   == (-1)..MaxDelta
Metrics  == (-MaxMetric)..MaxMetric

Calls ==
    {[fn |-> "colorizers", x |-> x] : x \in Metrics}
    \cup {[fn |-> "get_net_download_mbps", prev_bytes |-> p, curr_bytes |-> c, delta_sec |-> d] :
             p \in ByteVals, c \in ByteVals, d \in Deltas}
    \cup {[fn |-> "get_net_bytes_recv", psutil |-> ps, iface |-> f, src |-> src] :
             ps \in BOOLEAN, f \in {NoIface, "eth0", "wlan0", "wlan9"}, src \in NetSources}

\* The module is imported and one helper is about to be called; no
\* window exists.
InitFn ==
    /\ pc = "lib"
    /\ nvidia_smi = TRUE /\ psutil = TRUE
    /\ a_interval = 1000 /\ a_iface = "auto"
    /\ list_out = ProcFail
    /\ exit_code = -1
    /\ stderr = "" /\ done = {}
    /\ gpu_count = 0 /\ interval_ms = 0 /\ iface = NoIface
    /\ prev_rx = 0 /\ prev_time = 0
    /\ gpu_labels = <<>> /\ lbl_cpu = CpuInitial /\ lbl_net = NetInitial
    /\ timers = 0 /\ timer_delay = 0
    /\ i = 0 /\ queried = <<>>
    /\ sample = [taken |-> FALSE, rx |-> 0, now |-> 0]
    /\ prev_age = 0 /\ rate_age = 0
    /\ call \in Calls /\ ret = NoRet

\* color_for_util(x), color_for_temp(x) and color_for_cpu(x) of one value.
CallColorizers ==
    /\ call.fn = "colorizers" /\ ~ret.done
    /\ ret' = [done |-> TRUE, util |-> color_for_util(call.x),
               temp |-> color_for_temp(call.x), cpu |-> color_for_cpu(call.x)]
    /\ UNCHANGED <<appVars, call>>

CallRate ==
    /\ call.fn = "get_net_download_mbps" /\ ~ret.done
    /\ ret' = [done |-> TRUE,
               mbps |-> get_net_download_mbps(call.prev_bytes, call.curr_bytes, call.delta_sec)]
    /\ UNCHANGED <<appVars, call>>

CallNetBytes ==
    /\ call.fn = "get_net_bytes_recv" /\ ~ret.done
    /\ ret' = [done |-> TRUE, r |-> get_net_bytes_recv(call.psutil, call.iface, call.src)]
    /\ UNCHANGED <<appVars, call>>

NextFn ==
    \/ CallColorizers
    \/ CallRate
    \/ CallNetBytes

SpecFn == InitFn /\ [][NextFn]_vars

(* ------------------------------- claims ------------------------------- *)

InRefresh == pc \in {"gpu", "cpu", "net", "sched"}

\* C1: in every tick, the three slots of each GPU already queried in the
\* tick show exactly what that tick's one query of that GPU gave: the
\* formatted values with their threshold colours if it returned, "err" /
\* "n/a" / "-- degC" if it raised; a failure neither touches another GPU's
\* slots nor ends the loop, and nothing of an earlier tick's failure stays.
C1_GpuSlotsFollowThisTicksQuery ==
    /\ \A k \in 1..Len(queried) :
         LET q == queried[k].q
             slots == gpu_labels[queried[k].idx + 1]
         IN  IF q.ok
             THEN /\ slots[1] = Lbl(Num("%", Fmt0(q.v[1])), color_for_util(q.v[1]))
                  /\ slots[2] = Lbl(Num(" W", Fmt0(q.v[2])), Plain)
                  /\ slots[3] = Lbl(Num(" degC", Fmt0(q.v[3])), color_for_temp(q.v[3]))
             ELSE /\ slots[1] = Lbl(Lit("err"), Red)
                  /\ slots[2] = Lbl(Lit("n/a"), Amber)
                  /\ slots[3] = Lbl(Lit("-- degC"), Neutral)
    /\ pc \in {"cpu", "net", "sched"} => Len(queried) = Len(gpu_labels)

\* In a tick after the first, GPU 0's query failed and GPU 1's answered
\* 69.5: GPU 0 shows "err", GPU 1 shows 70% in amber, and the loop is over.
C1_Witness ==
    /\ pc = "cpu" /\ Len(queried) = 2
    /\ ~queried[1].q.ok /\ queried[2].q.ok
    /\ gpu_labels[1][1].text = Lit("err")
    /\ gpu_labels[2][1].text = Num("%", 70)
    /\ gpu_labels[2][1].fg = Amber
    /\ lbl_net # NetInitial

\* C2: every tick ends by scheduling the next one, so whenever the main
\* loop is waiting a refresh callback is pending.
C2_WaitingLoopHasPendingTick ==
    pc = "idle" => timers >= 1

\* C3: after every tick the one retained NET sample is the sample taken in
\* that tick, and the rate shown was computed from the sample of the tick
\* before.
C3_PrevIsThisTicksSample ==
    (pc = "idle" /\ "tick" \in done) =>
        /\ sample.taken
        /\ <<prev_rx, prev_time>> = <<sample.rx, sample.now>>
        /\ prev_age = 0
        /\ rate_age = 1

\* In every tick whose NET query returns, the retained sample is replaced
\* by that tick's sample whatever the rate, and the rate was computed from
\* the sample of the tick before (or of __init__).
NetSampleAdvancesWhenTaken ==
    pc = "sched" =>
        /\ sample.taken
        /\ <<prev_rx, prev_time>> = <<sample.rx, sample.now>>
        /\ prev_age = 0
        /\ rate_age = 1

\* C4: at most one refresh callback is pending or running.
C4_TicksNeverOverlap ==
    timers + (IF InRefresh THEN 1 ELSE 0) <= 1

\* A tick has run to its end and the next one is pending.
C4_Witness ==
    pc = "idle" /\ timers = 1 /\ "tick" \in done /\ timer_delay = interval_ms

\* C5: without nvidia-smi the process exits nonzero with the diagnostic
\* and nothing else has happened; and no other path ends the process with
\* an error.
C5_OnlyMissingToolIsFatal ==
    /\ (~nvidia_smi /\ pc = "exited") =>
           /\ exit_code = 1
           /\ stderr = "Error: nvidia-smi not found in PATH"
           /\ done = {}
    /\ exit_code \notin {-1, 0} => ~nvidia_smi

\* Greatest common divisor of two naturals, not both 0.
RECURSIVE Gcd(_, _)
Gcd(a, b) == IF b = 0 THEN a ELSE Gcd(b, a % b)

\* A fraction with den > 0 in lowest terms.
Lowest(r) ==
    LET g == Gcd(IF r.num < 0 THEN -r.num ELSE r.num, r.den)
    IN  Rat(r.num \div g, r.den \div g)

\* C6: get_net_download_mbps is never negative, is 0 for delta_sec <= 0 and
\* for curr_bytes < prev_bytes, otherwise is
\* (curr_bytes - prev_bytes) / (1024*1024) / delta_sec; (0, 104857600, 1)
\* gives 100.
C6_RateClampedAtZero ==
    (ret.done /\ call.fn = "get_net_download_mbps") =>
        LET p == call.prev_bytes
            c == call.curr_bytes
            d == call.delta_sec
            r == ret.mbps
        IN  /\ r.den > 0 /\ r.num >= 0
            /\ d <= 0 => r.num = 0
            /\ c < p => r.num = 0
            /\ (d > 0 /\ c >= p) => Lowest(r) = Lowest(Rat(c - p, 1048576 * d))
            /\ (p = 0 /\ c = 104857600 /\ d = 1) => Lowest(r) = Rat(100, 1)

\* The counter went backwards over a positive interval and the rate is 0.
C6_Witness ==
    /\ ret.done /\ call.fn = "get_net_download_mbps"
    /\ call.curr_bytes < call.prev_bytes /\ call.delta_sec > 0
    /\ ret.mbps.num = 0

\* The colour of a step function with breaks lo and hi, x in halves.
Band(x, lo, hi) == IF x < 2 * lo THEN "#22c55e" ELSE IF x < 2 * hi THEN "#f59e0b" ELSE "#ef4444"

\* C7: the colorizers are total step functions with breaks 40/70
\* (utilisation), 40/75 (CPU) and 70/85 (temperature), also below 0 and
\* above 100; the CPU and utilisation colours differ exactly on [70, 75).
C7_ColorizerBreaks ==
    (ret.done /\ call.fn = "colorizers") =>
        /\ ret.util = Band(call.x, 40, 70)
        /\ ret.cpu = Band(call.x, 40, 75)
        /\ ret.temp = Band(call.x, 70, 85)
        /\ (ret.cpu # ret.util) <=> (2 * 70 <= call.x /\ call.x < 2 * 75)

\* 74.5: amber as a CPU value, red as a GPU utilisation.
C7_Witness ==
    /\ ret.done /\ call.fn = "colorizers" /\ call.x = 149
    /\ ret.cpu = "#f59e0b" /\ ret.util = "#ef4444" /\ ret.temp = "#f59e0b"

\* The non-loopback interfaces of a table, and those of them with the
\* highest sent+received count.
NonLoopback(t) == {k \in 1..Len(t) : t[k].name # "lo"}
Busiest(t) ==
    {k \in NonLoopback(t) :
        \A j \in NonLoopback(t) :
            t[j].bytes_recv + t[j].bytes_sent <= t[k].bytes_recv + t[k].bytes_sent}

\* C8: get_net_bytes_recv returns the named interface's received bytes if
\* it is known, with "auto" the received bytes of the busiest
\* (sent+received) non-loopback interface, and 0 when there are no
\* counters or they cannot be read; with psutil and without.
C8_NetBytesOfChosenInterface ==
    (ret.done /\ call.fn = "get_net_bytes_recv") =>
        LET t == call.src.table
            known == call.src.readable /\ call.iface # NoIface /\ call.iface \in Names(t)
        IN  /\ known => ret.r = Return(Entry(t, call.iface).bytes_recv)
            /\ (call.src.readable /\ call.iface = NoIface /\ NonLoopback(t) # {}) =>
                   /\ ret.r.ok
                   /\ \E k \in Busiest(t) : ret.r.v = t[k].bytes_recv
            /\ (~known /\ (~call.src.readable \/ NonLoopback(t) = {})) => ret.r = Return(0)

\* The interval as main() hands it over, clamped below at 250.
Clamped250 == IF a_interval < 250 THEN 250 ELSE a_interval

\* C9: interval_ms is max(250, requested interval) from construction on,
\* and every after() at the end of refresh uses it.
C9_IntervalClampedAt250 ==
    /\ timer_delay # 0 => interval_ms = Clamped250
    /\ (timers >= 1 /\ "tick" \in done) => timer_delay = Clamped250

\* --interval 100: a tick has run and the next is due after 250 ms.
C9_Witness ==
    a_interval = 100 /\ "tick" \in done /\ timers = 1 /\ timer_delay = 250

\* Lines of a listing: none without text, else one more than the newlines
\* between the first and the last text.
Listed(out) ==
    LET gs == {k \in 1..Len(out) : out[k] = "g"}
    IN  IF gs = {} THEN 0
        ELSE 1 + Cardinality({k \in 1..Len(out) :
                     /\ out[k] = "nl"
                     /\ \E a \in gs : a < k
                     /\ \E b \in gs : k < b})

\* C10: there are as many GPU slot sets as GPUs counted at startup (the
\* lines of the listing), and each tick queries the indices 0, 1, ...,
\* gpu_count-1 in turn, each once.
C10_SlotSetsMatchGpuCount ==
    /\ Len(gpu_labels) = gpu_count
    /\ timer_delay # 0 => gpu_count = Listed(list_out.out)
    /\ Len(queried) <= gpu_count
    /\ \A k \in 1..Len(queried) : queried[k].idx = k - 1
    /\ (pc \in {"cpu", "net", "sched"} \/ (pc = "idle" /\ "tick" \in done)) =>
           Len(queried) = gpu_count

\* A 2-line listing: two slot sets, GPU 0 and GPU 1 queried in a tick.
C10_Witness ==
    /\ list_out.out = <<"g", "nl", "g">>
    /\ gpu_count = 2 /\ Len(gpu_labels) = 2
    /\ pc = "idle" /\ "tick" \in done
    /\ Len(queried) = 2

====
